---- MODULE Spec2Model ----
(***************************************************************************)
(* The balance-diff trade-decision engine of the wallet tracker            *)
(* (startTracker / compareBalances): the activity handler fetches a        *)
(* snapshot of the tracked wallet, compareBalances classifies every token  *)
(* against the previous snapshot and dispatches swaps, and the swap        *)
(* outcomes update the bot's shadow ledger and the metrics record.         *)
(*                                                                         *)
(* Balances are counted in steps of 0.0005 UI units, so the dust threshold *)
(* 0.001 is 2.  A JavaScript Map is a function whose DOMAIN is             *)
(* the set of keys it holds.  The code shares Map objects: after the       *)
(* handler's previousBalances = newBalances the global and the running     *)
(* compareBalances call hold the same object, so `sharedWith` names the    *)
(* call whose newBalances is the object previousBalances refers to.        *)
(* The model keeps a call and its callbacks only while they run; lastPass  *)
(* records what the most recent call decided.                              *)
(***************************************************************************)
EXTENDS Integers, Sequences, FiniteSets, TLC

\* token mints of the model
Tokens == {"TKN"}

\* largest balance of the tracked wallet, in steps of 0.0005 UI units
MaxBal == 4
\* largest output amount a swap reports, and largest synced bot balance
MaxOut == 1
\* the transaction signatures of the activity feed
Signatures == {1, 2}
\* the feed delivers a signature a second time only while the call counter is
\* one of these
DuplicateCalls == {3}
\* Date.now() advances in steps of TickMs between notifications, up to MaxClock (milliseconds)
\* the largest outAmount of a quote and of the Helius lookup
MaxQuote == 2
\* the largest raw amount of the bot's token account that executeSwapSell reads
MaxRaw == 3
\* the percentages executeSwapSell is called with
Percentages == {50, 100}
\* the interval callbacks of the polling tracker that are followed
MaxPolls == 3
\* the largest `retries` waitForBalanceUpdate is called with
MaxRetries == 5
TickMs == 50
MaxClock == 100

\* 0.001 UI units, in steps of 0.0005
DUST_THRESHOLD == 2
MIN_CHECK_INTERVAL == 50
\* Number(config.TRADE_AMOUNT_SOL) * 1_000_000_000 with the default "0.001"
TRADE_AMOUNT_LAMPORTS == 1000000

VARIABLES
  clock,                   \* Date.now(); it advances when a notification arrives
  previousBalances,        \* Map token -> balance
  sharedWith,              \* the running call sharing that Map object, or 0
  botBalances,             \* Map token -> amount
  processedSignatures,     \* Set of signatures
  apiCallCount,
  lastBalanceCheck,
  trackedWalletSignatures, \* Map token -> signature
  tradeCount,
  metrics,
  syncTracked,             \* the startup fetch of the tracked wallet is pending
  syncBot,                 \* the startup fetch of the bot wallet is pending
  handlers,                \* onLogs invocations suspended in their balance fetch
  passes,                  \* the running compareBalances calls: id -> newBalances
  tasks,                   \* their per-token callbacks suspended at an await
  lastPass,                \* what the most recent compareBalances call decided
  call,                    \* one call of executeSwapBuy or executeSwapSell
  poll,                    \* the polling tracker of tracker.ts
  wait                     \* one call of waitForBalanceUpdate

vars == <<clock, previousBalances, sharedWith, botBalances, processedSignatures,
          apiCallCount, lastBalanceCheck, trackedWalletSignatures, tradeCount, metrics,
          syncTracked, syncBot, handlers, passes, tasks, lastPass, call, poll, wait>>

\* the tracker's own state, which a call of the trader never touches
trackerVars == <<clock, previousBalances, sharedWith, botBalances, processedSignatures,
                 apiCallCount, lastBalanceCheck, trackedWalletSignatures, tradeCount,
                 metrics, syncTracked, syncBot, handlers, passes, tasks, lastPass>>

----------------------------------------------------------------------------
\* Map helpers

EmptyMap == [t \in {} |-> 0]

\* map.get(k) || 0
Get(m, k) == IF k \in DOMAIN m THEN m[k] ELSE 0

\* map.has(k)
Has(m, k) == k \in DOMAIN m

\* map.set(k, v)
MapSet(m, k, v) == [x \in (DOMAIN m) \cup {k} |-> IF x = k THEN v ELSE m[x]]

\* map.delete(k)
MapDelete(m, k) == [x \in (DOMAIN m) \ {k} |-> m[x]]

\* what getParsedTokenAccountsByOwner can answer for the tracked wallet and
\* for the bot wallet: a balance per token account
TrackedAccounts == [Tokens -> 0..MaxBal]
BotAccounts == [Tokens -> 0..MaxOut]

\* the times at which the next notification can arrive
Now == {t \in clock..MaxClock : (t - clock) % TickMs = 0}

getWalletTokenBalances_Unfiltered(accounts, ok) == accounts

\* getWalletTokenBalances: only positive balances are kept; a failed request
\* yields an empty map
getWalletTokenBalances(accounts, ok) ==
  IF ok THEN [t \in {x \in DOMAIN accounts : accounts[x] > 0} |-> accounts[t]]
        ELSE EmptyMap

----------------------------------------------------------------------------
\* Metrics

resetMetrics ==
  [latencies |-> << >>, successfulTrades |-> 0, totalTrades |-> 0, apiCallCount |-> 0]

updatePerformanceMetrics_CountsEveryTrade(count, latency, success, currentMetrics) ==
  [latencies        |-> Append(currentMetrics.latencies, latency),
   successfulTrades |-> currentMetrics.successfulTrades + 1,
   totalTrades      |-> currentMetrics.totalTrades + 1,
   apiCallCount     |-> currentMetrics.apiCallCount]

updatePerformanceMetrics(count, latency, success, currentMetrics) ==
  [latencies        |-> Append(currentMetrics.latencies, latency),
   successfulTrades |-> currentMetrics.successfulTrades + (IF success THEN 1 ELSE 0),
   totalTrades      |-> currentMetrics.totalTrades + 1,
   apiCallCount     |-> currentMetrics.apiCallCount]

----------------------------------------------------------------------------
\* compareBalances: the decisions, taken synchronously when it is called

\* the if / else-if chain of the tradePromises callback
TradeBranch(token, oldBalances, newBalances, bot, prev) ==
  LET newBalance == Get(newBalances, token)
      oldBalance == Get(oldBalances, token)
  IN  IF newBalance > oldBalance /\ ~Has(bot, token) /\ ~Has(prev, token)
        THEN "BUY"
      ELSE IF newBalance > oldBalance
        THEN "INCREASE"
      ELSE IF newBalance < oldBalance /\ newBalance > 0
        THEN "DECREASE"
      ELSE "NONE"

\* the branch every callback of Array.from(newTokens).map(...) takes
Branches(oldBalances, newBalances, bot, prev) ==
  [t \in Tokens |->
     IF Has(newBalances, t)
       THEN TradeBranch(t, oldBalances, newBalances, bot, prev)
       ELSE "NONE"]

FullSell_StrictDust(token, newBalances, bot) ==
  (~Has(newBalances, token) \/ Get(newBalances, token) < DUST_THRESHOLD)
    /\ Get(bot, token) > 0

FullSell_NoLedgerCheck(token, newBalances, bot) ==
  ~Has(newBalances, token) \/ Get(newBalances, token) <= DUST_THRESHOLD

\* the condition of the sellPromises callback
FullSell(token, newBalances, bot) ==
  (~Has(newBalances, token) \/ Get(newBalances, token) <= DUST_THRESHOLD)
    /\ Get(bot, token) > 0

decreasePercent_OfNewBalance(oldBalance, newBalance) ==
  [num |-> (oldBalance - newBalance) * 100, den |-> newBalance]

\* decreasePercent = (decreaseAmount / oldBalance) * 100, kept as a fraction
decreasePercent(oldBalance, newBalance) ==
  [num |-> (oldBalance - newBalance) * 100, den |-> oldBalance]

Percent100 == [num |-> 100, den |-> 1]
NoPercent == [num |-> 0, den |-> 1]

\* botBalance - botBalance * (decreasePercent / 100); the amount taken off is
\* rounded down to a whole ledger unit
newBotTokenBalance(botBalance, pct) ==
  botBalance - ((botBalance * pct.num) \div (pct.den * 100))

\* previousBalances.set(token, accumulatedBalance) of every "Increase in
\* Stake" branch, applied to the object previousBalances refers to
IncreaseMutation(prev, oldBalances, newBalances, branch) ==
  LET inc == {t \in Tokens : branch[t] = "INCREASE"}
  IN  [t \in (DOMAIN prev) \cup inc |->
         IF t \in inc
           THEN Get(prev, t) + (Get(newBalances, t) - Get(oldBalances, t))
           ELSE prev[t]]

\* the loop of the onLogs handler that stores the signature per token
RecordSignatures(sigs, prev, newBalances, signature) ==
  LET stored == {t \in DOMAIN newBalances :
                   LET newBal == newBalances[t]
                       oldBal == Get(prev, t)
                   IN  \/ newBal > oldBal
                       \/ (newBal < oldBal /\ newBal > 0)
                       \/ (~Has(newBalances, t) \/ newBal <= DUST_THRESHOLD)}
  IN  [t \in (DOMAIN sigs) \cup stored |->
         IF t \in stored THEN signature ELSE sigs[t]]

Task_NoHolding(p, token, kind, pc, botBalance, pct, amount, now) ==
  [pass |-> p, token |-> token, kind |-> kind, pc |-> pc,
   botBalance |-> 0, percent |-> pct, amount |-> amount,
   start |-> now, latency |-> 0, success |-> FALSE]

Task(p, token, kind, pc, botBalance, pct, amount, now) ==
  [pass |-> p, token |-> token, kind |-> kind, pc |-> pc,
   botBalance |-> botBalance, percent |-> pct, amount |-> amount,
   start |-> now, latency |-> 0, success |-> FALSE]

\* the tradePromises callbacks of one compareBalances call that reach an await
TradeTasks(p, oldBalances, newBalances, bot, branch, now) ==
  { Task(p, t, "BUY", "swap", 0, NoPercent, TRADE_AMOUNT_LAMPORTS, now) :
      t \in {x \in Tokens : branch[x] = "BUY"} }
  \cup
  { Task(p, t, "INCREASE", "notify", 0, NoPercent, 0, now) :
      t \in {x \in Tokens : branch[x] = "INCREASE"} }
  \cup
  { Task(p, t, "PARTIAL", "swap", Get(bot, t),
         decreasePercent(Get(oldBalances, t), Get(newBalances, t)), 0, now) :
      t \in {x \in Tokens : branch[x] = "DECREASE" /\ Get(bot, x) > 0} }

SellTasks_OfNewTokens(p, oldTokens, newBalances, bot, now) ==
  { Task(p, t, "FULL", "swap", Get(bot, t), Percent100, 0, now) :
      t \in {x \in DOMAIN newBalances : FullSell(x, newBalances, bot)} }

\* the sellPromises callbacks that reach an await
SellTasks(p, oldTokens, newBalances, bot, now) ==
  { Task(p, t, "FULL", "swap", Get(bot, t), Percent100, 0, now) :
      t \in {x \in oldTokens : FullSell(x, newBalances, bot)} }

IsSwap(k) == k \in {"BUY", "PARTIAL", "FULL"}

\* if (result.success && result.outAmount) botBalances.set(token, result.outAmount)
BuyLedger_Always(bot, token, success, outAmount) == MapSet(bot, token, outAmount)

BuyLedger(bot, token, success, outAmount) ==
  IF success /\ outAmount # 0 THEN MapSet(bot, token, outAmount) ELSE bot

\* if (result.success) botBalances.set(token, newBotTokenBalance), computed from
\* the botBalance the callback read before it awaited the swap
PartialLedger(bot, token, botBalance, pct, success) ==
  IF success THEN MapSet(bot, token, newBotTokenBalance(botBalance, pct)) ELSE bot

FullLedger_Always(bot, token, success) == MapSet(bot, token, 0)

\* if (result.success) botBalances.set(token, 0)
FullLedger(bot, token, success) ==
  IF success THEN MapSet(bot, token, 0) ELSE bot

NoPass ==
  [signature |-> 0, ok |-> TRUE, oldAt |-> EmptyMap, newAt |-> EmptyMap,
   botAt |-> EmptyMap, branch |-> [t \in Tokens |-> "NONE"], started |-> {}]

----------------------------------------------------------------------------
\* tracker.ts: the polling tracker

\* fetchCurrentTokenBalances: every token account with its amount, zero
\* included, or an empty Map on an error
fetchCurrentTokenBalances(accounts, ok) ==
  IF ok THEN accounts ELSE EmptyMap

PollBranch_Ungated(isFirstRun, oldBalance, newBalance) ==
  IF oldBalance = 0 /\ newBalance > 0 THEN "BUY"
  ELSE IF newBalance > oldBalance THEN "INCREASE"
  ELSE IF newBalance = 0 /\ oldBalance > 0 THEN "SELL"
  ELSE "NONE"

\* compareBalances: what one iteration of the loop over allTokens does
PollBranch(isFirstRun, oldBalance, newBalance) ==
  IF isFirstRun THEN "NONE"
  ELSE IF oldBalance = 0 /\ newBalance > 0 THEN "BUY"
  ELSE IF newBalance > oldBalance THEN "INCREASE"
  ELSE IF newBalance = 0 /\ oldBalance > 0 THEN "SELL"
  ELSE "NONE"

\* trackWalletBalances has just been called: isFirstRun = true, an empty
\* previousBalances, no interval callback yet; started counts the callbacks,
\* passCount the compareBalances calls, log the swaps and messages with the
\* number of the call that made them
NoPoll ==
  [isFirstRun |-> TRUE, previousBalances |-> EmptyMap, started |-> 0, fetching |-> 0,
   passCount |-> 0, running |-> {}, log |-> {}]

\* no call of waitForBalanceUpdate is running; seen lists what each fetch
\* returned for the token
NoWait ==
  [pc |-> "idle", retries |-> 0, i |-> 0, fetches |-> 0, seen |-> <<>>,
   result |-> FALSE]

waitLoop_Inclusive(i, retries) == i <= retries

\* waitForBalanceUpdate: for (let i = 0; i < retries; i++)
waitLoop(i, retries) == i < retries

\* waitForBalanceUpdate at the head of its loop
waitForBalanceUpdate(w) ==
  IF waitLoop(w.i, w.retries)
    THEN [w EXCEPT !.pc = "fetch"]
    ELSE [w EXCEPT !.pc = "done", !.result = FALSE]

----------------------------------------------------------------------------
\* trader.ts: executeSwapBuy, executeSwapSell, executeSwap

\* { success: false, outAmount: 0 }
Failure == [success |-> FALSE, outAmount |-> 0]

\* no call is running; quoteResponse 0 stands for null
NoCall ==
  [fn |-> "none", pc |-> "idle", percentageToSell |-> 0, tokenBalance |-> 0,
   amount |-> 0, quoteResponse |-> 0, submitted |-> FALSE, confirmation |-> "none",
   failure |-> "none", result |-> Failure, rejected |-> FALSE]

\* the bot's token accounts of one mint: none, or one holding a raw amount
BotTokenAccounts == {<<>>} \cup {<<b>> : b \in 0..MaxRaw}

\* getTokenBalance: 0 without an account and 0 on any error, else the raw
\* amount of the first account
getTokenBalance(tokenAccounts, ok) ==
  IF ~ok THEN 0
  ELSE IF Len(tokenAccounts) = 0 THEN 0
  ELSE tokenAccounts[1]

sellAmount_Rounded(tokenBalance, percentageToSell) ==
  (tokenBalance * percentageToSell + 50) \div 100

\* executeSwapSell: the amount to sell
sellAmount(tokenBalance, percentageToSell) ==
  IF percentageToSell = 100
    THEN tokenBalance
    ELSE (tokenBalance * percentageToSell) \div 100

\* getBestQuote: null (0) on an error, on a response without outAmount and on
\* outAmount "0", else the response
getBestQuote(outAmount, ok) ==
  IF ~ok \/ outAmount = 0 THEN 0 ELSE outAmount

\* the function returns r because of `failure`
ReturnFailure(c, failure) ==
  [c EXCEPT !.pc = "done", !.failure = failure, !.result = Failure]

executeSwapCatch_Rethrows(c, failure) ==
  [c EXCEPT !.pc = "done", !.failure = failure, !.rejected = TRUE]

\* executeSwap: catch (error) { return { success: false, outAmount: 0 } }
executeSwapCatch(c, failure) ==
  [c EXCEPT !.pc = "done", !.failure = failure, !.result = Failure]

\* executeSwapSell after its balance read
executeSwapSell(c, tokenBalance) ==
  LET amount == sellAmount(tokenBalance, c.percentageToSell) IN
  IF tokenBalance <= 0
    THEN ReturnFailure([c EXCEPT !.tokenBalance = tokenBalance], "balance")
  ELSE IF amount = 0 /\ c.percentageToSell > 0
    THEN ReturnFailure([c EXCEPT !.tokenBalance = tokenBalance], "amount")
  ELSE [c EXCEPT !.tokenBalance = tokenBalance, !.amount = amount, !.pc = "quote"]

----------------------------------------------------------------------------
Init ==
  /\ clock = MIN_CHECK_INTERVAL
  /\ previousBalances = EmptyMap
  /\ sharedWith = 0
  /\ botBalances = EmptyMap
  /\ processedSignatures = {}
  \* startTracker has called getWalletTokenBalances twice
  /\ apiCallCount = 2
  /\ lastBalanceCheck = 0
  /\ trackedWalletSignatures = EmptyMap
  /\ tradeCount = 0
  /\ metrics = resetMetrics
  /\ syncTracked = TRUE
  /\ syncBot = TRUE
  /\ handlers = {}
  /\ passes = EmptyMap
  /\ tasks = {}
  /\ lastPass = NoPass
  /\ call = NoCall
  /\ poll = NoPoll
  /\ wait = NoWait

\* startTracker: getWalletTokenBalances(TRACKED_WALLET).then(...)
SyncTrackedResolve ==
  /\ UNCHANGED <<call, poll, wait>>
  /\ syncTracked
  /\ \E accounts \in TrackedAccounts, ok \in BOOLEAN :
       previousBalances' = getWalletTokenBalances(accounts, ok)
  /\ sharedWith' = 0
  /\ syncTracked' = FALSE
  /\ apiCallCount' = apiCallCount + 1
  /\ UNCHANGED <<clock, botBalances, processedSignatures, lastBalanceCheck,
                 trackedWalletSignatures, tradeCount, metrics, syncBot, handlers,
                 passes, tasks, lastPass>>

\* startTracker: getWalletTokenBalances(botWallet).then(...)
SyncBotResolve ==
  /\ UNCHANGED <<call, poll, wait>>
  /\ syncBot
  /\ \E accounts \in BotAccounts, ok \in BOOLEAN :
       botBalances' = getWalletTokenBalances(accounts, ok)
  /\ syncBot' = FALSE
  /\ apiCallCount' = apiCallCount + 1
  /\ UNCHANGED <<clock, previousBalances, sharedWith, processedSignatures,
                 lastBalanceCheck, trackedWalletSignatures, tradeCount, metrics,
                 syncTracked, handlers, passes, tasks, lastPass>>

\* the signatures a notification can carry: one seen before, or the next new one
NextSignatures ==
  {sig \in Signatures : \A other \in Signatures \ processedSignatures : sig <= other}

\* processedSignatures.has(logs.signature)
processedSignaturesHas(seen, signature) == signature \in seen

logsErr_Ignored(err) == FALSE

\* if (logs.err) return
logsErr(err) == err

\* the onLogs callback up to its await of getWalletTokenBalances, which counts
\* one more call when it is entered
OnLogsEvent(signature, err) ==
  /\ UNCHANGED <<call, poll, wait>>
  /\ IF processedSignaturesHas(processedSignatures, signature)
      THEN /\ apiCallCount \in DuplicateCalls
           /\ apiCallCount' = apiCallCount + 1
           /\ UNCHANGED <<clock, previousBalances, sharedWith, botBalances,
                          processedSignatures, lastBalanceCheck,
                          trackedWalletSignatures, tradeCount, metrics,
                          syncTracked, syncBot, handlers, passes, tasks, lastPass>>
      ELSE /\ processedSignatures' = processedSignatures \cup {signature}
           /\ IF logsErr(err)
                THEN /\ apiCallCount' = apiCallCount + 1
                     /\ UNCHANGED <<clock, handlers>>
                ELSE \E now \in Now :
                   /\ clock' = now
                   /\ IF now - lastBalanceCheck >= MIN_CHECK_INTERVAL
                        THEN /\ handlers' = handlers \cup
                                  {[signature |-> signature, now |-> now]}
                             /\ apiCallCount' = apiCallCount + 2
                        ELSE /\ handlers' = handlers
                             /\ apiCallCount' = apiCallCount + 1
           /\ UNCHANGED <<previousBalances, sharedWith, botBalances,
                          lastBalanceCheck, trackedWalletSignatures, tradeCount,
                          metrics, syncTracked, syncBot, passes, tasks, lastPass>>

\* one notification, with or without its error flag
OnLogsSignature(signature) == \E err \in BOOLEAN : OnLogsEvent(signature, err)

OnLogs == \E signature \in NextSignatures : OnLogsSignature(signature)

\* a write to the Map object previousBalances refers to is seen by the running
\* call that holds the same object as its newBalances
WriteShared(running, m) ==
  IF sharedWith # 0 THEN MapSet(running, sharedWith, m) ELSE running

\* the onLogs callback after its await: the signature loop, the synchronous
\* part of compareBalances (every callback of both map() calls runs up to its
\* first await), then previousBalances = newBalances and lastBalanceCheck = now.
\* A call none of whose callbacks awaits goes on to its own last statement,
\* previousBalances = new Map(newBalances), before any other event is handled.
FetchResolve ==
  /\ UNCHANGED <<call, poll, wait>>
  /\ \E h \in handlers, accounts \in TrackedAccounts, ok \in BOOLEAN :
    LET newBalances == getWalletTokenBalances(accounts, ok)
        oldBalances == previousBalances
        p           == h.signature
        branch      == Branches(oldBalances, newBalances, botBalances,
                                previousBalances)
        trades      == TradeTasks(p, oldBalances, newBalances, botBalances,
                                  branch, clock)
        sells       == SellTasks(p, DOMAIN oldBalances, newBalances,
                                 botBalances, clock)
        started     == trades \cup sells
        mutated     == IncreaseMutation(previousBalances, oldBalances,
                                        newBalances, branch)
    IN  \* a failed request has no answer
        /\ (ok \/ accounts = [t \in Tokens |-> 0])
        /\ handlers' = handlers \ {h}
        /\ trackedWalletSignatures' =
             RecordSignatures(trackedWalletSignatures, previousBalances,
                              newBalances, h.signature)
        /\ tradeCount' = tradeCount + Cardinality({k \in started : IsSwap(k.kind)})
        /\ tasks' = tasks \cup started
        /\ lastPass' =
             [signature |-> p, ok |-> ok, oldAt |-> oldBalances,
              newAt |-> newBalances, botAt |-> botBalances, branch |-> branch,
              started |-> started]
        /\ previousBalances' = newBalances
        /\ IF started = {}
             THEN /\ passes' = WriteShared(passes, mutated)
                  /\ sharedWith' = 0
             ELSE /\ passes' = MapSet(WriteShared(passes, mutated), p, newBalances)
                  /\ sharedWith' = p
        /\ lastBalanceCheck' = h.now
        \* counted after the fetch and on entry of compareBalances
        /\ apiCallCount' = apiCallCount + 2
        /\ UNCHANGED <<clock, botBalances, processedSignatures, metrics,
                       syncTracked, syncBot>>

\* a callback that has returned is dropped from the suspended callbacks
Continue(k, pc, success) ==
  IF pc = "done"
    THEN tasks \ {k}
    ELSE (tasks \ {k}) \cup
           {[k EXCEPT !.pc = pc, !.success = success,
                      !.latency = IF k.pc = "swap" THEN clock - k.start ELSE @]}

\* executeSwapBuy resolves: the "Initial Buy" branch after its await
SwapBuy(k, success, outAmount) ==
    /\ UNCHANGED <<call, poll, wait>>
    /\ k.kind = "BUY" /\ k.pc = "swap"
    /\ (success \/ outAmount = 0)
    /\ botBalances' = BuyLedger(botBalances, k.token, success, outAmount)
    /\ tasks' = IF success /\ outAmount # 0
                  THEN Continue(k, "notify", TRUE)
                  ELSE Continue(k, "done", success)
    /\ UNCHANGED <<clock, previousBalances, sharedWith, processedSignatures, apiCallCount,
                   lastBalanceCheck, trackedWalletSignatures, tradeCount, metrics,
                   syncTracked, syncBot, handlers, passes, lastPass>>

SwapBuyResolve ==
  \E k \in tasks, success \in BOOLEAN, outAmount \in 0..MaxOut :
    SwapBuy(k, success, outAmount)

\* executeSwapSell(token, solMint, decreasePercent) resolves
SwapPartial(k, success) ==
    /\ UNCHANGED <<call, poll, wait>>
    /\ k.kind = "PARTIAL" /\ k.pc = "swap"
    /\ botBalances' = PartialLedger(botBalances, k.token, k.botBalance,
                                    k.percent, success)
    /\ IF success
         THEN /\ metrics' = metrics
              /\ tasks' = Continue(k, "notifyBot", TRUE)
         ELSE /\ metrics' = updatePerformanceMetrics(tradeCount, clock - k.start,
                                                     FALSE, metrics)
              /\ tasks' = Continue(k, "notify", FALSE)
    /\ UNCHANGED <<clock, previousBalances, sharedWith, processedSignatures, apiCallCount,
                   lastBalanceCheck, trackedWalletSignatures, tradeCount,
                   syncTracked, syncBot, handlers, passes, lastPass>>

SwapPartialResolve ==
  \E k \in tasks, success \in BOOLEAN : SwapPartial(k, success)

\* executeSwapSell(token, solMint, 100) resolves: the "Full Sell" callback
SwapFull(k, success) ==
    /\ UNCHANGED <<call, poll, wait>>
    /\ k.kind = "FULL" /\ k.pc = "swap"
    /\ botBalances' = FullLedger(botBalances, k.token, success)
    /\ IF success
         THEN /\ previousBalances' = MapDelete(previousBalances, k.token)
              /\ passes' = WriteShared(passes, MapDelete(previousBalances, k.token))
              /\ metrics' = metrics
              /\ tasks' = Continue(k, "notify", TRUE)
         ELSE /\ previousBalances' = previousBalances
              /\ passes' = passes
              /\ metrics' = updatePerformanceMetrics(tradeCount, clock - k.start,
                                                     FALSE, metrics)
              /\ tasks' = Continue(k, "done", FALSE)
    /\ UNCHANGED <<clock, sharedWith, processedSignatures, apiCallCount, lastBalanceCheck,
                   trackedWalletSignatures, tradeCount, syncTracked, syncBot,
                   handlers, lastPass>>

SwapFullResolve ==
  \E k \in tasks, success \in BOOLEAN : SwapFull(k, success)

\* awaited notifications return (sendBotNotification and sendWalletNotification
\* catch delivery errors themselves) and the callback runs on.  "notifyBot" is
\* the sendBotNotification of a partial sell, which the metrics update and the
\* sendWalletNotification follow; "notify" is the callback's remaining
\* notifications, awaited one after the other with no statement in between,
\* after which an initial buy updates the metrics and the callback returns.
sendNotification_Rethrows(delivered) == delivered

\* sendWalletNotification / sendBotNotification: the axios.post is inside a
\* try / catch that only logs, so the call returns whether or not the message
\* was delivered
sendNotification(delivered) == TRUE

\* a notification call that rejected would reject the callback and with it the
\* Promise.all of the pass, whose last assignment would then not be executed
Notify(k, delivered) ==
    /\ UNCHANGED <<call, poll, wait>>
    /\ k.pc \in {"notifyBot", "notify"}
    /\ IF sendNotification(delivered)
         THEN /\ tasks' = Continue(k, IF k.pc = "notifyBot" THEN "notify" ELSE "done",
                                   k.success)
              /\ metrics' =
                   IF k.pc = "notifyBot" \/ (k.kind = "BUY" /\ k.pc = "notify")
                     THEN updatePerformanceMetrics(tradeCount, k.latency, k.success,
                                                   metrics)
                     ELSE metrics
              /\ UNCHANGED <<passes, sharedWith>>
         ELSE /\ tasks' = tasks \ {k}
              /\ metrics' = metrics
              /\ passes' = MapDelete(passes, k.pass)
              /\ sharedWith' = IF sharedWith = k.pass THEN 0 ELSE sharedWith
    /\ UNCHANGED <<clock, previousBalances, botBalances, processedSignatures,
                   apiCallCount, lastBalanceCheck, trackedWalletSignatures,
                   tradeCount, syncTracked, syncBot, handlers, lastPass>>

NotifyResolve ==
  \E k \in tasks, delivered \in BOOLEAN : Notify(k, delivered)

\* compareBalances after await Promise.all: previousBalances = new Map(newBalances)
PassEndOf(p) ==
    /\ UNCHANGED <<call, poll, wait>>
    /\ p \in DOMAIN passes
    /\ \A k \in tasks : k.pass # p
    /\ previousBalances' = passes[p]
    /\ sharedWith' = 0
    /\ passes' = MapDelete(passes, p)
    /\ UNCHANGED <<clock, botBalances, processedSignatures, apiCallCount, lastBalanceCheck,
                   trackedWalletSignatures, tradeCount, metrics, syncTracked,
                   syncBot, handlers, tasks, lastPass>>

PassEnd == \E p \in DOMAIN passes : PassEndOf(p)

Next ==
  \/ SyncTrackedResolve
  \/ SyncBotResolve
  \/ OnLogs
  \/ FetchResolve
  \/ SwapBuyResolve
  \/ SwapPartialResolve
  \/ SwapFullResolve
  \/ NotifyResolve
  \/ PassEnd

Spec == Init /\ [][Next]_vars

----------------------------------------------------------------------------
\* One call of the trader, step by step

\* executeSwapBuy(SOL, token, TRADE_AMOUNT_LAMPORTS)
ExecuteSwapBuyCall ==
  /\ call.pc = "idle"
  /\ call' = [NoCall EXCEPT !.fn = "buy", !.pc = "quote",
                            !.amount = TRADE_AMOUNT_LAMPORTS]
  /\ UNCHANGED <<trackerVars, poll, wait>>

\* executeSwapSell(token, SOL, percentageToSell)
ExecuteSwapSellCall ==
  /\ call.pc = "idle"
  /\ \E percentageToSell \in Percentages :
       call' = [NoCall EXCEPT !.fn = "sell", !.pc = "balance",
                              !.percentageToSell = percentageToSell]
  /\ UNCHANGED <<trackerVars, poll, wait>>

\* executeSwapSell: await getTokenBalance(...) and the checks that follow
GetTokenBalanceResolve ==
  /\ call.pc = "balance"
  /\ \E tokenAccounts \in BotTokenAccounts, ok \in BOOLEAN :
       call' = executeSwapSell(call, getTokenBalance(tokenAccounts, ok))
  /\ UNCHANGED <<trackerVars, poll, wait>>

\* executeSwap: await getBestQuote(...)
GetBestQuoteResolve ==
  /\ call.pc = "quote"
  /\ \E outAmount \in 0..MaxQuote, ok \in BOOLEAN :
       LET quoteResponse == getBestQuote(outAmount, ok) IN
       call' = IF quoteResponse = 0
                 THEN ReturnFailure(call, "quote")
                 ELSE [call EXCEPT !.quoteResponse = quoteResponse, !.pc = "swap"]
  /\ UNCHANGED <<trackerVars, poll, wait>>

\* executeSwap: await axios.post(JUPITER_SWAP_API, ...)
SwapPostResolve ==
  /\ call.pc = "swap"
  /\ \E response \in {"throws", "empty", "swapTransaction"} :
       call' = CASE response = "throws" -> executeSwapCatch(call, "swap")
                 [] response = "empty" -> ReturnFailure(call, "swapTransaction")
                 [] OTHER -> [call EXCEPT !.pc = "blockhash"]
  /\ UNCHANGED <<trackerVars, poll, wait>>

\* executeSwap: await connection.getLatestBlockhash("processed")
GetLatestBlockhashResolve ==
  /\ call.pc = "blockhash"
  /\ \E ok \in BOOLEAN :
       call' = IF ok THEN [call EXCEPT !.pc = "send"]
                     ELSE executeSwapCatch(call, "blockhash")
  /\ UNCHANGED <<trackerVars, poll, wait>>

\* executeSwap: await connection.sendRawTransaction(...)
SendRawTransactionResolve ==
  /\ call.pc = "send"
  /\ \E ok \in BOOLEAN :
       call' = IF ok THEN [call EXCEPT !.submitted = TRUE, !.pc = "confirm"]
                     ELSE executeSwapCatch(call, "send")
  /\ UNCHANGED <<trackerVars, poll, wait>>

\* executeSwap: await connection.confirmTransaction(...); it throws when the
\* blockhash expires, and resolves to { value: { err } } otherwise; the code
\* drops what it resolves to
ConfirmTransactionResolve ==
  /\ call.pc = "confirm"
  /\ \E outcome \in {"throws", "err", "ok"} :
       call' = IF outcome = "throws"
                 THEN executeSwapCatch(call, "confirm")
                 ELSE [call EXCEPT !.confirmation = outcome, !.pc = "helius"]
  /\ UNCHANGED <<trackerVars, poll, wait>>

\* executeSwap: the Helius lookup of the final amount, with the quote's
\* outAmount as the fallback
HeliusResolve ==
  /\ call.pc = "helius"
  /\ \E found \in BOOLEAN, finalOutAmount \in 0..MaxQuote :
       /\ (found \/ finalOutAmount = 0)
       /\ call' = [call EXCEPT !.pc = "done",
                               !.result = [success |-> TRUE,
                                           outAmount |-> IF found THEN finalOutAmount
                                                         ELSE call.quoteResponse]]
  /\ UNCHANGED <<trackerVars, poll, wait>>

\* the caller's await continues
CallSettled ==
  /\ call.pc = "done"
  /\ call' = NoCall
  /\ UNCHANGED <<trackerVars, poll, wait>>

SwapNext ==
  \/ ExecuteSwapBuyCall
  \/ ExecuteSwapSellCall
  \/ GetTokenBalanceResolve
  \/ GetBestQuoteResolve
  \/ SwapPostResolve
  \/ GetLatestBlockhashResolve
  \/ SendRawTransactionResolve
  \/ ConfirmTransactionResolve
  \/ HeliusResolve
  \/ CallSettled

SwapSpec == Init /\ [][SwapNext]_vars

----------------------------------------------------------------------------
\* The polling tracker, step by step

\* setInterval(async () => { ... }, 300): a callback starts its fetch
IntervalTick ==
  /\ poll.started < MaxPolls
  /\ poll' = [poll EXCEPT !.started = @ + 1, !.fetching = @ + 1]
  /\ UNCHANGED <<trackerVars, call, wait>>

\* the callback after its await: compareBalances runs up to its first await,
\* or to its end, and then previousBalances = latestBalances
PollFetchResolve ==
  /\ poll.fetching > 0
  /\ \E accounts \in TrackedAccounts, ok \in BOOLEAN :
       LET latestBalances == fetchCurrentTokenBalances(accounts, ok)
           pass == poll.passCount + 1
           allTokens == DOMAIN poll.previousBalances \cup DOMAIN latestBalances
           branch == [t \in allTokens |->
                        PollBranch(poll.isFirstRun, Get(poll.previousBalances, t),
                                   Get(latestBalances, t))]
           awaited == {[pass |-> pass, token |-> t, kind |-> branch[t], pc |-> "swap"] :
                          t \in {x \in allTokens : branch[x] # "NONE"}}
       IN poll' = [poll EXCEPT
                     !.fetching = @ - 1,
                     !.passCount = pass,
                     !.running = @ \cup awaited,
                     !.log = @ \cup {[pass |-> k.pass, event |-> "swap"] : k \in awaited},
                     !.isFirstRun = IF awaited = {} THEN FALSE ELSE @,
                     !.previousBalances = latestBalances]
  /\ UNCHANGED <<trackerVars, call, wait>>

\* compareBalances after await executeSwapBuy / executeSwapSell
PollSwap(k, success) ==
  /\ k \in poll.running
  /\ k.pc = "swap"
  /\ LET next == IF success /\ k.kind = "BUY"
                   THEN {[k EXCEPT !.pc = "wait"]}
                   ELSE {}
     IN poll' = [poll EXCEPT
                   !.running = (@ \ {k}) \cup next,
                   !.log = IF success
                             THEN @ \cup {[pass |-> k.pass, event |-> "telegram"]}
                             ELSE @,
                   !.isFirstRun = IF next = {} THEN FALSE ELSE @]
  /\ UNCHANGED <<trackerVars, call, wait>>

PollSwapResolve == \E k \in poll.running, success \in BOOLEAN : PollSwap(k, success)

\* compareBalances after await waitForBalanceUpdate(...)
PollWaitResolve ==
  /\ \E k \in poll.running :
       /\ k.pc = "wait"
       /\ poll' = [poll EXCEPT !.running = @ \ {k}, !.isFirstRun = FALSE]
  /\ UNCHANGED <<trackerVars, call, wait>>

PollNext ==
  \/ IntervalTick
  \/ PollFetchResolve
  \/ PollSwapResolve
  \/ PollWaitResolve

PollSpec == Init /\ [][PollNext]_vars

----------------------------------------------------------------------------
\* One call of waitForBalanceUpdate, step by step

\* waitForBalanceUpdate(walletAddress, token, retries, delayMs)
WaitCall ==
  /\ wait.pc = "idle"
  /\ \E retries \in 0..MaxRetries :
       wait' = waitForBalanceUpdate([NoWait EXCEPT !.retries = retries])
  /\ UNCHANGED <<trackerVars, call, poll>>

\* await fetchCurrentTokenBalances(walletAddress) and the test of the balance
WaitFetchResolve ==
  /\ wait.pc = "fetch"
  /\ \E accounts \in TrackedAccounts, ok \in BOOLEAN, token \in Tokens :
       LET balances == fetchCurrentTokenBalances(accounts, ok)
           balance == Get(balances, token)
           fetched == [wait EXCEPT !.fetches = @ + 1,
                                   !.seen = Append(@, [ok |-> ok, balance |-> balance])]
       IN wait' = IF balance > 0
                    THEN [fetched EXCEPT !.pc = "done", !.result = TRUE]
                    ELSE [fetched EXCEPT !.pc = "sleep"]
  /\ UNCHANGED <<trackerVars, call, poll>>

\* await new Promise((resolve) => setTimeout(resolve, delayMs)); i++
WaitTimer ==
  /\ wait.pc = "sleep"
  /\ wait' = waitForBalanceUpdate([wait EXCEPT !.i = @ + 1])
  /\ UNCHANGED <<trackerVars, call, poll>>

\* the caller's await continues
WaitSettled ==
  /\ wait.pc = "done"
  /\ wait' = NoWait
  /\ UNCHANGED <<trackerVars, call, poll>>

WaitNext ==
  \/ WaitCall
  \/ WaitFetchResolve
  \/ WaitTimer
  \/ WaitSettled

\* a fetch settles (fetchCurrentTokenBalances catches) and a timer fires
WaitSpec ==
  /\ Init
  /\ [][WaitNext]_vars
  /\ WF_vars(WaitFetchResolve)
  /\ WF_vars(WaitTimer)

----------------------------------------------------------------------------
\* Properties of a comparison pass, stated on what the latest call decided

\* the swap commands the latest compareBalances call dispatched for token t
Commands(t) == {k \in lastPass.started : k.token = t /\ IsSwap(k.kind)}

\* everything the latest call started for token t (swaps and notifications)
Started(t) == {k \in lastPass.started : k.token = t}

Dispatched(t, kind) == \E k \in lastPass.started : k.token = t /\ k.kind = kind

OldOf(t) == Get(lastPass.oldAt, t)
NewOf(t) == Get(lastPass.newAt, t)
BotOf(t) == Get(lastPass.botAt, t)

\* C1: one compareBalances call dispatches at most one swap command (BUY,
\* partial SELL or 100% SELL) per token, so no token is sold both as a partial
\* decrease and as a full exit in the same pass.
C1_OneCommandPerTokenPerPass ==
  \A t \in Tokens : Cardinality(Commands(t)) <= 1

\* C2: at every moment at most one swap per token is dispatched and not yet
\* resolved, over all the comparison passes the handler started.
C2_OneSwapInFlightPerToken ==
  \A k1, k2 \in tasks :
    (k1.pc = "swap" /\ k2.pc = "swap" /\ k1.token = k2.token) => k1 = k2

\* C3: when a comparison pass takes its decisions, no swap dispatched by an
\* earlier pass is unresolved for a token the pass decides about.
C3_NoDecisionWhileSwapUnresolved ==
  [][ lastPass' # lastPass =>
        \A k \in tasks :
          k.pc = "swap" =>
            k.token \notin (DOMAIN lastPass'.oldAt) \cup (DOMAIN lastPass'.newAt) ]_vars

\* C4: a pass dispatches a BUY of the configured trade size for token t if and
\* only if the old balance is 0, the new balance is positive and the bot holds
\* no position in t (ledger amount 0, or no ledger entry).
C4_BuyIffNewPosition ==
  \A t \in Tokens :
    (\E k \in Commands(t) : k.kind = "BUY" /\ k.amount = TRADE_AMOUNT_LAMPORTS)
      <=> (OldOf(t) = 0 /\ NewOf(t) > 0 /\ BotOf(t) = 0)

\* C5: when the balance of t rises and the pass does not buy t as a new
\* position, the pass dispatches no swap for t and changes neither botBalances
\* nor the trade counters; it only sends the increase notification.
C5_IncreaseIsAlertOnly ==
  [][ (lastPass' # lastPass /\
        \E t \in Tokens :
          /\ Get(lastPass'.newAt, t) > Get(lastPass'.oldAt, t)
          /\ lastPass'.branch[t] # "BUY")
      => /\ \A k \in lastPass'.started : k.kind = "INCREASE"
         /\ botBalances' = botBalances
         /\ tradeCount' = tradeCount
         /\ metrics' = metrics ]_vars

\* C6: a partial-decrease SELL is dispatched only when new < old and the new
\* balance is above the dust threshold.
C6_PartialOnlyAboveDust ==
  \A t \in Tokens :
    Dispatched(t, "PARTIAL") => (NewOf(t) < OldOf(t) /\ NewOf(t) > DUST_THRESHOLD)

C8_FullSellWhenever ==
  \A t \in Tokens :
    /\ ((~Has(lastPass.newAt, t) \/ NewOf(t) <= DUST_THRESHOLD) /\ BotOf(t) > 0
          /\ lastPass.signature # 0)
         => Dispatched(t, "FULL")
    /\ NewOf(t) > DUST_THRESHOLD => ~Dispatched(t, "FULL")

\* C8 amended: a 100% SELL is dispatched for t exactly when t is a token of the
\* old snapshot, t is missing from the new snapshot or its new balance is at
\* most the dust threshold, and the bot holds t; it is never dispatched for a
\* token whose new balance is above the threshold.
C8_FullSellOfOldTokens ==
  \A t \in Tokens :
    /\ Dispatched(t, "FULL")
         <=> /\ Has(lastPass.oldAt, t)
             /\ (~Has(lastPass.newAt, t) \/ NewOf(t) <= DUST_THRESHOLD)
             /\ BotOf(t) > 0
    /\ NewOf(t) > DUST_THRESHOLD => ~Dispatched(t, "FULL")
    /\ \A k \in Started(t) : k.kind = "FULL" => k.percent = Percent100

C8_Witness ==
  \E t \in Tokens :
    /\ Dispatched(t, "FULL")
    /\ NewOf(t) = DUST_THRESHOLD
    /\ OldOf(t) = DUST_THRESHOLD + 1

\* C9: for a token whose balance is the same in the old and the new snapshot a
\* pass dispatches no swap and sends no notification, whatever the ledger holds.
C9_UnchangedBalanceNoEvent ==
  \A t \in Tokens :
    (lastPass.signature # 0 /\ OldOf(t) = NewOf(t)) => Started(t) = {}

\* C10: a SELL (partial or 100%) is dispatched for t only if botBalances[t] > 0
\* when the pass decides; a token that disappears from the snapshot while the
\* bot holds none of it produces no command.
C10_SellOnlyIfHeld ==
  /\ \A k \in lastPass.started :
       k.kind \in {"PARTIAL", "FULL"} => BotOf(k.token) > 0
  /\ \A k \in tasks :
       k.kind \in {"PARTIAL", "FULL"} => k.botBalance > 0
  /\ \A t \in Tokens :
       (Has(lastPass.oldAt, t) /\ ~Has(lastPass.newAt, t) /\ BotOf(t) = 0)
         => Commands(t) = {}

C10_Witness ==
  \E t \in Tokens :
    /\ lastPass.signature # 0
    /\ Has(lastPass.oldAt, t) /\ ~Has(lastPass.newAt, t)
    /\ BotOf(t) = 0
    /\ Started(t) = {}

----------------------------------------------------------------------------
\* Properties of the swap outcomes, stated on the step that applies an outcome

\* C11: when a BUY for token T resolves with success and output amount A, the
\* ledger holds the entry botBalances[T] = A right after the outcome is applied.
C11_BuySuccessSetsLedger ==
  [][ \A k \in tasks, A \in 0..MaxOut :
        SwapBuy(k, TRUE, A)
          => (Has(botBalances', k.token) /\ botBalances'[k.token] = A) ]_vars

\* C12: when a 100% SELL for T resolves with success botBalances[T] is 0 after
\* the outcome is applied, and while the ledger holds 0 for T the outcome of no
\* SELL for T makes it positive again.
C12_FullSellZeroUntilBuy ==
  [][ \A k \in tasks :
        /\ SwapFull(k, TRUE) => Get(botBalances', k.token) = 0
        /\ (Has(botBalances, k.token) /\ botBalances[k.token] = 0
              /\ \E success \in BOOLEAN : SwapPartial(k, success) \/ SwapFull(k, success))
             => Get(botBalances', k.token) = 0 ]_vars

\* C13: when a partial SELL at percent P for T resolves with success,
\* botBalances[T] becomes H - H*P/100 for the H the ledger holds for T right
\* before the outcome is applied.
C13_PartialSellUsesCurrentHolding ==
  [][ \A k \in tasks :
        SwapPartial(k, TRUE)
          => Get(botBalances', k.token) =
               newBotTokenBalance(Get(botBalances, k.token), k.percent) ]_vars

\* C14: when a BUY, a partial SELL or a 100% SELL resolves with success:false,
\* botBalances is left as it was, for every token.
C14_FailureLeavesLedger ==
  [][ \A k \in tasks :
        (SwapBuy(k, FALSE, 0) \/ SwapPartial(k, FALSE) \/ SwapFull(k, FALSE))
          => botBalances' = botBalances ]_vars

\* a partial sell has failed while the bot held the token
C14_Witness ==
  \E k \in tasks :
    /\ k.kind = "PARTIAL" /\ k.pc = "notify" /\ ~k.success
    /\ Get(botBalances, k.token) > 0

----------------------------------------------------------------------------
\* Properties of the metrics record

\* C15: once every dispatched swap has resolved and its callback has returned,
\* metrics.totalTrades equals tradeCount, the number of swap commands ever
\* dispatched, and successfulTrades is at most totalTrades.
C15_EveryTradeCounted ==
  tasks = {} =>
    /\ metrics.totalTrades = tradeCount
    /\ metrics.successfulTrades <= metrics.totalTrades

\* C16: the metrics record always has successfulTrades <= totalTrades and one
\* latency per counted trade; every change of the record appends one latency,
\* adds 1 to totalTrades, adds 1 to successfulTrades exactly when the trade
\* succeeded and leaves apiCallCount alone; the record is never reset after
\* its initialisation by resetMetrics.
C16_MetricsRecord ==
  /\ [](/\ metrics.successfulTrades <= metrics.totalTrades
        /\ Len(metrics.latencies) = metrics.totalTrades
        /\ (metrics.totalTrades = 0 => metrics = resetMetrics))
  /\ [][ metrics' # metrics =>
          /\ metrics'.totalTrades = metrics.totalTrades + 1
          /\ Len(metrics'.latencies) = Len(metrics.latencies) + 1
          /\ SubSeq(metrics'.latencies, 1, Len(metrics.latencies)) = metrics.latencies
          /\ metrics'.apiCallCount = metrics.apiCallCount
          /\ \E k \in tasks \ tasks' :
               metrics'.successfulTrades =
                 metrics.successfulTrades
                   + (IF k.pc # "swap" /\ k.success THEN 1 ELSE 0) ]_vars

\* a failed and a successful trade have both been recorded
C16_Witness ==
  metrics.totalTrades = 2 /\ metrics.successfulTrades = 1

----------------------------------------------------------------------------
\* Properties of the activity handler

\* C17: a notification whose signature is already in processedSignatures is
\* dropped without side effects: the step changes no variable of the tracker,
\* starts no fetch and no comparison pass.
C17_DuplicateChangesNothing ==
  [][ \A signature \in processedSignatures :
        OnLogsSignature(signature) => UNCHANGED vars ]_vars

\* C18: the fetches the handler has started and that are still pending were
\* started at least MIN_CHECK_INTERVAL apart, and each of them at least
\* MIN_CHECK_INTERVAL after the fetch recorded in lastBalanceCheck.
C18_FetchesSpaced ==
  \A h1, h2 \in handlers :
    h1 # h2 =>
      \/ h1.now - h2.now >= MIN_CHECK_INTERVAL
      \/ h2.now - h1.now >= MIN_CHECK_INTERVAL

\* C19: when the handler's balance fetch fails, getWalletTokenBalances yields
\* an empty snapshot and the handler goes on as with any snapshot: it runs the
\* comparison pass, stores the snapshot and sets lastBalanceCheck.
C19_FailedFetchYieldsEmptySnapshot ==
  [][ \A h \in handlers \ handlers' :
        /\ lastPass'.signature = h.signature
        /\ lastBalanceCheck' = h.now
        /\ ~lastPass'.ok =>
             /\ lastPass'.newAt = EmptyMap
             /\ previousBalances' = EmptyMap ]_vars

\* a failed fetch has been compared with a snapshot that held a token
C19_Witness ==
  /\ lastPass.signature # 0
  /\ ~lastPass.ok
  /\ lastPass.oldAt # EmptyMap

\* C20: the snapshot a running comparison pass was given as newBalances is
\* never modified: no entry is added, changed or deleted while the pass runs.
C20_SnapshotsImmutable ==
  [][ \A p \in (DOMAIN passes) \cap (DOMAIN passes') :
        passes'[p] = passes[p] ]_vars

----------------------------------------------------------------------------
\* Properties of the stored snapshot and of the classification

\* C21: previousBalances only moves forward: when a comparison pass ends after
\* a later pass was started (whose snapshot the handler has stored since), its
\* last assignment does not put its own older snapshot in place of what
\* previousBalances holds.
C21_PreviousBalancesMovesForward ==
  [][ \A p \in DOMAIN passes :
        (PassEndOf(p) /\ lastPass.signature # p)
          => previousBalances' = previousBalances ]_vars

\* the old snapshot as the latest comparison left it: the handler passes the
\* Map object of previousBalances as oldBalances, and the "Increase in Stake"
\* branch writes to that object
OldAfterRun ==
  IncreaseMutation(lastPass.oldAt, lastPass.oldAt, lastPass.newAt, lastPass.branch)

\* C22: classification is idempotent: running the comparison a second time on
\* the (old, new) pair of the latest pass, with the ledger as it was, takes the
\* same branch for every token and dispatches a 100% SELL for the same tokens.
C22_ClassificationIdempotent ==
  lastPass.signature # 0 =>
    /\ Branches(OldAfterRun, lastPass.newAt, lastPass.botAt, OldAfterRun)
         = lastPass.branch
    /\ \A t \in Tokens :
         (t \in DOMAIN OldAfterRun /\ FullSell(t, lastPass.newAt, lastPass.botAt))
           <=> Dispatched(t, "FULL")

----------------------------------------------------------------------------
\* Properties of the ledger, the recorded signatures and the notifications

\* C23 as claimed: botBalances is written only when a swap resolves with
\* success, never by any other step of the tracker.
C23_LedgerWrittenOnlyBySwaps ==
  [][ botBalances' # botBalances =>
        \E k \in tasks :
          \/ \E A \in 1..MaxOut : SwapBuy(k, TRUE, A)
          \/ SwapPartial(k, TRUE)
          \/ SwapFull(k, TRUE) ]_vars

\* C23 amended: botBalances is written only by the bot-wallet synchronisation
\* of startTracker, which loads the on-chain balances, and when a swap resolves
\* with success (a BUY with a non-zero output amount, a partial SELL, a 100%
\* SELL); no other step of the tracker writes it.
C23_LedgerWrittenBySyncOrSwaps ==
  [][ botBalances' # botBalances =>
        \/ SyncBotResolve
        \/ \E k \in tasks :
             \/ \E A \in 1..MaxOut : SwapBuy(k, TRUE, A)
             \/ SwapPartial(k, TRUE)
             \/ SwapFull(k, TRUE) ]_vars

\* the synchronisation has loaded the ledger and a BUY has written to it since
C23_Witness ==
  /\ ~syncBot
  /\ \E k \in tasks :
       /\ k.kind = "BUY" /\ k.pc = "notify"
       /\ Get(botBalances, k.token) > 0
       /\ Get(lastPass.botAt, k.token) = 0

\* C24: when the snapshot a handler fetched shows another balance for T than
\* previousBalances (an increase, a decrease, or T missing from the snapshot),
\* the handler records its notification's signature for T before it calls
\* compareBalances.
C24_SignatureRecordedOnChange ==
  [][ \A h \in handlers \ handlers' :
        \A t \in Tokens :
          Get(lastPass'.newAt, t) # Get(lastPass'.oldAt, t)
            => (Has(trackedWalletSignatures', t)
                  /\ trackedWalletSignatures'[t] = h.signature) ]_vars

\* C25: a notification whose delivery fails leaves botBalances,
\* previousBalances, tradeCount and the metrics record as a delivered one does,
\* and the comparison pass goes on to its end.
C25_DeliveryFailureSwallowed ==
  [][ \A k \in tasks :
        Notify(k, FALSE) => (Notify(k, TRUE) /\ k.pass \in DOMAIN passes') ]_vars

\* the notifications of a successful BUY have returned, its trade is counted
\* and its pass has ended
C25_Witness ==
  /\ metrics.successfulTrades = 1
  /\ lastPass.signature # 0
  /\ \E t \in Tokens : Dispatched(t, "BUY")
  /\ tasks = {}
  /\ passes = EmptyMap

----------------------------------------------------------------------------
\* Properties of a pass as a whole

\* what identifies a dispatched callback: its pass, token and kind, and the
\* holding and percentage it captured
Decision(k) ==
  [pass |-> k.pass, token |-> k.token, kind |-> k.kind,
   botBalance |-> k.botBalance, percent |-> k.percent]

\* C26: every decision of a pass is taken from the one (old, new) snapshot
\* pair and the ledger as they were when the pass started: what the pass
\* dispatches for a token is determined by these three, every SELL carries the
\* holding read from that ledger, and no step other than the start of a pass
\* (in particular no swap outcome) takes a decision.
C26_DecisionsFromPassStart ==
  /\ [](\A t \in Tokens :
          LET isBuy == /\ NewOf(t) > OldOf(t)
                       /\ ~Has(lastPass.botAt, t) /\ ~Has(lastPass.oldAt, t)
          IN  /\ Dispatched(t, "BUY") <=> isBuy
              /\ Dispatched(t, "INCREASE") <=> (NewOf(t) > OldOf(t) /\ ~isBuy)
              /\ Dispatched(t, "PARTIAL")
                   <=> (0 < NewOf(t) /\ NewOf(t) < OldOf(t) /\ BotOf(t) > 0)
              /\ Dispatched(t, "FULL")
                   <=> (Has(lastPass.oldAt, t) /\ NewOf(t) <= DUST_THRESHOLD
                          /\ BotOf(t) > 0)
              /\ \A k \in Started(t) :
                   k.botBalance = (IF k.kind \in {"PARTIAL", "FULL"}
                                     THEN BotOf(t) ELSE 0))
  /\ [][ /\ lastPass' # lastPass =>
             /\ lastPass'.oldAt = previousBalances
             /\ lastPass'.botAt = botBalances
             /\ botBalances' = botBalances
        /\ lastPass' = lastPass =>
             {Decision(k) : k \in tasks'} \subseteq {Decision(k) : k \in tasks} ]_vars

\* a partial SELL decided from the ledger of its pass is pending while the
\* ledger has been changed by another outcome
C26_Witness ==
  \E k \in tasks :
    /\ k.kind = "PARTIAL" /\ k.pc = "swap"
    /\ k \in lastPass.started
    /\ Get(botBalances, k.token) # BotOf(k.token)

\* C27: a pass whose fetch failed compares the empty snapshot like any other:
\* among the tokens of the previous snapshot exactly those with
\* botBalances > 0 get a 100% SELL, nothing else is dispatched, and the handler
\* stores the empty snapshot as previousBalances.
C27_FailedFetchSellsEverything ==
  /\ [](~lastPass.ok =>
          /\ \A t \in DOMAIN lastPass.oldAt :
               Dispatched(t, "FULL") <=> BotOf(t) > 0
          /\ \A k \in lastPass.started : k.kind = "FULL")
  /\ [][ (lastPass' # lastPass /\ ~lastPass'.ok)
          => previousBalances' = EmptyMap ]_vars

\* a failed fetch has made the pass sell a token the bot held
C27_Witness ==
  /\ ~lastPass.ok
  /\ \E t \in Tokens : Dispatched(t, "FULL") /\ OldOf(t) > DUST_THRESHOLD

\* C28: once a 100% SELL of T has succeeded (the ledger holds 0 for T), a pass
\* in which T reappears in the tracked wallet (old balance 0, new balance > 0)
\* dispatches a BUY for T.
C28_RebuyAfterFullSell ==
  \A t \in Tokens :
    (Has(lastPass.botAt, t) /\ lastPass.botAt[t] = 0
       /\ OldOf(t) = 0 /\ NewOf(t) > 0)
      => Dispatched(t, "BUY")

----------------------------------------------------------------------------
\* C29: executeSwap returns success:true only if the submitted transaction was
\* confirmed on chain without an error.
C29_SuccessOnlyIfConfirmedWithoutError ==
  (call.pc = "done" /\ call.result.success) => call.confirmation = "ok"

\* C30: executeSwapBuy and executeSwapSell never reject; every failure (no
\* quote, no swap transaction, balance read error, an exception of any awaited
\* step) is returned as {success: false, outAmount: 0}, a call that ends with
\* no failure returns success, and no transaction is submitted without a quote.
C30_FailuresReturnedNotThrown ==
  /\ ~call.rejected
  /\ (call.pc = "done" /\ call.failure # "none") => call.result = Failure
  /\ (call.pc = "done" /\ call.failure = "none") => call.result.success
  /\ (call.pc = "done" /\ ~call.result.success) => call.result.outAmount = 0
  /\ call.submitted => call.quoteResponse > 0
  /\ call.failure = "quote" => ~call.submitted

\* a submitted transaction whose send or confirmation threw
C30_Witness ==
  /\ call.pc = "done"
  /\ call.failure = "confirm"
  /\ call.submitted
  /\ call.result = Failure

----------------------------------------------------------------------------
\* C31: executeSwapSell(token, P) with raw balance B returns failure without
\* submitting a swap when B <= 0; otherwise the amount to sell is B when
\* P = 100 and floor(B*P/100) otherwise, which never exceeds B; when that
\* amount is 0 and P > 0 it returns failure without submitting a swap.
C31_SellAmount ==
  (call.fn = "sell" /\ call.pc # "balance") =>
    LET B == call.tokenBalance
        P == call.percentageToSell
        floored == CHOOSE n \in 0..(B * P) : n * 100 <= B * P /\ B * P < (n + 1) * 100
        expected == IF P = 100 THEN B ELSE floored
        refused == /\ call.pc = "done"
                   /\ call.result = Failure
                   /\ ~call.submitted
                   /\ call.quoteResponse = 0
    IN IF B <= 0 THEN refused
       ELSE /\ expected <= B
            /\ IF expected = 0 /\ P > 0
                 THEN refused
                 ELSE call.amount = expected /\ call.failure \notin {"balance", "amount"}

\* half of a raw balance of 3 is sold as 1
C31_Witness ==
  /\ call.fn = "sell"
  /\ call.percentageToSell = 50
  /\ call.tokenBalance = 3
  /\ call.amount = 1
  /\ call.submitted

----------------------------------------------------------------------------
\* C32: a notification with its error flag set is recorded as seen, starts no
\* balance fetch and no comparison pass, and leaves previousBalances,
\* botBalances and lastBalanceCheck unchanged.
C32_ErrorNotificationOnlyRecorded ==
  [][ \A signature \in Signatures \ processedSignatures :
        OnLogsEvent(signature, TRUE) =>
          /\ processedSignatures' = processedSignatures \cup {signature}
          /\ handlers' = handlers
          /\ passes' = passes
          /\ tasks' = tasks
          /\ apiCallCount' = apiCallCount + 1
          /\ UNCHANGED <<previousBalances, botBalances, lastBalanceCheck>> ]_vars

\* the first notification was flagged: it is seen, and nothing was fetched
C32_Witness ==
  /\ processedSignatures = {1}
  /\ handlers = {}
  /\ lastBalanceCheck = 0
  /\ lastPass = NoPass
  /\ apiCallCount = 3

----------------------------------------------------------------------------
\* C33: in the polling tracker the first comparison pass dispatches no swap
\* and sends no notification whatever the first snapshot contains, trading is
\* enabled from the second pass on, and isFirstRun never becomes true again.
C33_FirstPassTradesNothing ==
  /\ [](/\ \A e \in poll.log : e.pass >= 2
        /\ poll.passCount = 0 => poll.isFirstRun
        /\ poll.passCount >= 1 => ~poll.isFirstRun)
  /\ [][ ~poll.isFirstRun => ~poll.isFirstRun' ]_vars

\* the first snapshot held the token and nothing was traded; the second pass
\* saw it go and sold
C33_Witness ==
  /\ poll.passCount = 2
  /\ poll.log = {[pass |-> 2, event |-> "swap"], [pass |-> 2, event |-> "telegram"]}
  /\ poll.previousBalances = [t \in Tokens |-> 0]

----------------------------------------------------------------------------
\* C38: waitForBalanceUpdate terminates after at most `retries` fetches; it
\* returns true at the first fetch that shows a balance > 0 and false after
\* exactly `retries` fetches none of which did; a failed fetch counts as 0.
C38_WaitTerminates ==
  /\ [](LET n == Len(wait.seen)
            positive(j) == wait.seen[j].balance > 0
        IN /\ wait.fetches = n
           /\ n <= wait.retries
           /\ \A j \in 1..n : ~wait.seen[j].ok => wait.seen[j].balance = 0
           /\ \A j \in 1..n : positive(j) =>
                (j = n /\ wait.pc = "done" /\ wait.result)
           /\ (wait.pc = "done" /\ wait.result) => (n >= 1 /\ positive(n))
           /\ (wait.pc = "done" /\ ~wait.result) => n = wait.retries)
  /\ ((wait.pc # "idle") ~> (wait.pc = "done"))

\* two fetches showed nothing, one of them failed, and the third showed the
\* token
C38_Witness ==
  /\ wait.pc = "done"
  /\ wait.result
  /\ wait.retries = 3
  /\ wait.fetches = 3
  /\ ~wait.seen[1].ok
  /\ wait.seen[2].ok

----------------------------------------------------------------------------
\* C34: a BUY of token t follows a real change of the tracked wallet's balance
\* of t from 0 to a positive amount; in particular, when the wallet held t
\* before a failed fetch and holds it at the next good one, the pass of the
\* good fetch dispatches no BUY of t.
C34_NoBuyOfTokenAlreadyHeld ==
  [][ \A t \in Tokens :
        ( /\ lastPass.signature # 0
          /\ lastPass'.signature # lastPass.signature
          /\ ~lastPass.ok
          /\ Get(lastPass.oldAt, t) > 0
          /\ lastPass'.ok
          /\ Get(lastPass'.newAt, t) > 0 )
        => ~(\E k \in lastPass'.started : k.token = t /\ k.kind = "BUY") ]_vars

----------------------------------------------------------------------------
\* C37: both start-up synchronisations have taken effect before a comparison
\* pass reads the maps; the tracked-wallet synchronisation never replaces a
\* snapshot stored by a pass, and the bot-wallet synchronisation never replaces
\* a ledger written by a swap outcome.
C37_SyncBeforeAnyPass ==
  /\ [][ lastPass'.signature # lastPass.signature => (~syncTracked /\ ~syncBot) ]_vars
  /\ [][ (syncTracked /\ ~syncTracked') => lastPass.signature = 0 ]_vars
  /\ [][ (syncBot /\ ~syncBot') => botBalances = EmptyMap ]_vars

----------------------------------------------------------------------------
\* C35: a 100% SELL of t that failed is attempted again by a later pass: when
\* the previous pass dispatched a full sell of t, that sell has returned
\* without emptying the ledger, and the next pass still finds t gone from the
\* tracked wallet, the next pass dispatches a full sell of t again.
C35_FailedFullSellRetried ==
  [][ \A t \in Tokens :
        ( /\ lastPass.signature # 0
          /\ lastPass'.signature # lastPass.signature
          /\ Dispatched(t, "FULL")
          /\ \A k \in tasks : k.token # t
          /\ Get(botBalances, t) > 0
          /\ ~Has(lastPass'.newAt, t) )
        => \E k \in lastPass'.started : k.token = t /\ k.kind = "FULL" ]_vars

----------------------------------------------------------------------------
\* C36: a notification that is neither a duplicate nor flagged as an error is
\* followed by a balance fetch started at or after its arrival: once its
\* handler has run, such a fetch is under way (no other step starts one).
C36_NotificationLeadsToFetch ==
  [][ \A signature \in Signatures \ processedSignatures :
        OnLogsEvent(signature, FALSE) => \E h \in handlers' : h.now >= clock' ]_vars
====
